---- MODULE Spec2Model ----
(***************************************************************************)
(* The hash router of the portfolio application (src/js/router.js): the    *)
(* route table, the navigation controller and the browser events that feed *)
(* it.  A path is a sequence of one-character strings, so that             *)
(* toLowerCase, trim and the edit distance are computed as the code        *)
(* computes them.  With it the contact form of the same application        *)
(* (src/js/components/contact.js): its fields, its submission and the      *)
(* draft it keeps in local storage.                                        *)
(***************************************************************************)
EXTENDS Integers, Sequences, FiniteSets, TLC

VARIABLES
    routes,        \* this.routes: the Map's entries, in insertion order
    currentRoute,  \* this.currentRoute
    previousRoute, \* this.previousRoute
    isNavigating,  \* this.isNavigating
    history,       \* this.history
    beforeRoute,   \* this.listeners.beforeRoute
    afterRoute,    \* this.listeners.afterRoute
    routeError,    \* this.listeners.routeError
    hash,          \* window.location.hash without its '#'
    canGoBack,     \* window.history.length > 1
    transitionClass, \* document.body.classList holds 'transition-fade'
    timers,        \* the setTimeout callbacks of handleTransition not yet run
    flights,       \* the navigate() invocations suspended at an await
    returned,      \* what navigate() returned in the latest step, if it did
    reported,      \* the handleError calls of the latest step
    dispatched,    \* the events dispatched on document in the latest step
    navigated,     \* the detail of the router:navigated events among them
    calc,          \* the latest call of calculateEditDistance and what it returned
    formFields,    \* Contact: formFields' value, by field name
    isDirty,       \* Contact: this.isDirty
    hasInteracted, \* Contact: this.hasInteracted
    isSubmitting,  \* Contact: this.isSubmitting
    status,        \* Contact: the class statusElement was given last
    draft,         \* localStorage's item 'contact-form-draft'
    autoSaveTimeout, \* debouncedAutoSave's timeout is set and has not run
    submission     \* simulateFormSubmission's promise is pending

vars == <<routes, currentRoute, previousRoute, isNavigating, history,
          beforeRoute, afterRoute, routeError, hash, canGoBack, transitionClass,
          timers, flights, returned, reported, dispatched, navigated, calc,
          formFields, isDirty, hasInteracted, isSubmitting, status, draft,
          autoSaveTimeout, submission>>

routerVars ==
    <<routes, currentRoute, previousRoute, isNavigating, history, beforeRoute,
      afterRoute, routeError, hash, canGoBack, transitionClass, timers, flights,
      returned, reported, dispatched, navigated, calc>>

formVars ==
    <<formFields, isDirty, hasInteracted, isSubmitting, status, draft,
      autoSaveTimeout, submission>>

----------------------------------------------------------------------------
(* Paths *)

NULL == <<"null">>

home == <<"h", "o", "m", "e">>

about == <<"a", "b", "o", "u", "t">>

contact == <<"c", "o", "n", "t", "a", "c", "t">>

abuot == <<"a", "b", "u", "o", "t">>

abou == <<"a", "b", "o", "u">>

About == <<"A", "b", "o", "u", "t">>

PaddedFaq == <<" ", "F", "a", "q", " ">>

PaddedHome == <<" ", "h", "o", "m", "e">>

far == <<"x">>

Empty == <<>>

----------------------------------------------------------------------------
(* String functions *)

LowerChar(c) ==
    CASE c = "A" -> "a"
      [] c = "F" -> "f"
      [] OTHER -> c

toLowerCase(s) == [i \in 1..Len(s) |-> LowerChar(s[i])]

RECURSIVE trimStart(_)
trimStart(s) ==
    IF s # <<>> /\ Head(s) = " " THEN trimStart(Tail(s)) ELSE s

RECURSIVE trimEnd(_)
trimEnd(s) ==
    IF s # <<>> /\ s[Len(s)] = " " THEN trimEnd(SubSeq(s, 1, Len(s) - 1)) ELSE s

trim(s) == trimEnd(trimStart(s))

defaultRoute == home

\* a JavaScript value is falsy here when it is null or the empty string
Falsy(path) == path = NULL \/ path = <<>>

normalizePath(path) ==
    IF Falsy(path) THEN defaultRoute ELSE trim(toLowerCase(path))

\* Min3, were the third term left out of the minimum
Min3OfTwo(a, b, c) == IF a <= b THEN a ELSE b

Min3(a, b, c) ==
    IF a <= b /\ a <= c THEN a ELSE IF b <= c THEN b ELSE c

\* one row of the matrix: row i of calculateEditDistance, from row i - 1
RECURSIVE EditRow(_, _, _, _, _)
EditRow(prev, row, str1, ch, j) ==
    IF j > Len(str1) THEN row
    ELSE LET cell == IF ch = str1[j]
                     THEN prev[j]
                     ELSE Min3(prev[j] + 1, row[j] + 1, prev[j + 1] + 1)
         IN EditRow(prev, Append(row, cell), str1, ch, j + 1)

\* rows are 1-indexed sequences: row[j + 1] is matrix[i][j]
RECURSIVE EditRows(_, _, _, _)
EditRows(prev, str1, str2, i) ==
    IF i > Len(str2) THEN prev
    ELSE EditRows(EditRow(prev, <<i>>, str1, str2[i], 1), str1, str2, i + 1)

calculateEditDistance(str1, str2) ==
    LET row0 == [j \in 1..(Len(str1) + 1) |-> j - 1]
    IN EditRows(row0, str1, str2, 1)[Len(str1) + 1]

\* a similarity is a fraction, kept as <<numerator, denominator>>
calculateSimilarity(str1, str2) ==
    LET longer == IF Len(str1) > Len(str2) THEN str1 ELSE str2
        shorter == IF Len(str1) > Len(str2) THEN str2 ELSE str1
    IN IF Len(longer) = 0 THEN <<1, 1>>
       ELSE <<Len(longer) - calculateEditDistance(longer, shorter), Len(longer)>>

\* a / b > c / d, for positive denominators
FracGreater(x, y) == x[1] * y[2] > y[1] * x[2]

Threshold == <<6, 10>>

----------------------------------------------------------------------------
(* The route table: a Map, kept as its entries in insertion order *)

\* what a callback does when it is called
GuardKinds == {"none", "allow", "deny", "throw"}

\* a handler that returns, one that throws, and the application's, which
\* calls navigate with its route's path
HandlerKinds == {"ok", "throw", "navigate"}

ListenerKinds == {"allow", "deny", "throw"}

Route(path, handler, beforeEnter) ==
    [path |-> path, handler |-> handler, beforeEnter |-> beforeEnter,
     afterEnter |-> "none"]

\* options.afterEnter
WithAfterEnter(route, afterEnter) == [route EXCEPT !.afterEnter = afterEnter]

MapKeys(m) == [i \in 1..Len(m) |-> m[i].key]

MapHas(m, k) == \E i \in 1..Len(m) : m[i].key = k

MapGet(m, k) == m[CHOOSE i \in 1..Len(m) : m[i].key = k].value

\* Map.prototype.set: an existing key keeps its place
\* MapSet, were a key that differs in case a new key
MapSetAppends(m, k, v) == Append(m, [key |-> k, value |-> v])

MapSet(m, k, v) ==
    IF MapHas(m, k)
    THEN [i \in 1..Len(m) |-> IF m[i].key = k THEN [key |-> k, value |-> v] ELSE m[i]]
    ELSE Append(m, [key |-> k, value |-> v])

MapDelete(m, k) == SelectSeq(m, LAMBDA e : e.key # k)

hasRoute(path) == MapHas(routes, normalizePath(path))

RECURSIVE BestMatch(_, _, _, _, _)
BestMatch(path, keys, i, bestMatch, bestScore) ==
    IF i > Len(keys) THEN bestMatch
    ELSE LET score == calculateSimilarity(path, keys[i])
         IN IF FracGreater(score, bestScore) /\ FracGreater(score, Threshold)
            THEN BestMatch(path, keys, i + 1, keys[i], score)
            ELSE BestMatch(path, keys, i + 1, bestMatch, bestScore)

findSimilarRoute(path) == BestMatch(path, MapKeys(routes), 1, NULL, <<0, 1>>)

----------------------------------------------------------------------------
(* navigate(): the router's fields are gathered in a record, which each    *)
(* synchronous stretch of the code transforms; a stretch ends at a return  *)
(* or at an await, where the invocation is parked in flights.              *)

maxHistoryLength == 50

NoOptions ==
    [force |-> FALSE, fromHashChange |-> FALSE, fromPopState |-> FALSE,
     skipHistory |-> FALSE]

Forced == [NoOptions EXCEPT !.force = TRUE]

FromHashChange == [NoOptions EXCEPT !.fromHashChange = TRUE]

FromPopState == [NoOptions EXCEPT !.fromPopState = TRUE]

SkipHistory == [NoOptions EXCEPT !.skipHistory = TRUE]

Ret(value, why) == [value |-> value, why |-> why]

\* calculateEditDistance has not been called
NoCall == [str1 |-> <<>>, str2 |-> <<>>, distance |-> -1]

Pending == Ret(FALSE, "pending")

Fields ==
    [isNavigating |-> isNavigating, currentRoute |-> currentRoute,
     previousRoute |-> previousRoute, history |-> history, hash |-> hash,
     canGoBack |-> canGoBack, transitionClass |-> transitionClass,
     timers |-> timers, flights |-> flights, ret |-> Pending,
     reported |-> <<>>, dispatched |-> <<>>, navigated |-> <<>>]

\* the invocation of navigate that is suspended at the await named by pc
Flight(path, normalizedPath, route, options, s) ==
    [path |-> path, normalizedPath |-> normalizedPath, route |-> route,
     options |-> options, pc |-> "before", idx |-> 0, listener |-> "none",
     startCurrent |-> s.currentRoute, startPrevious |-> s.previousRoute,
     pushed |-> FALSE, recorded |-> FALSE, evicted |-> FALSE, handlerRan |-> FALSE,
     inner |-> Pending, steps |-> <<>>]

\* the invocation's record of the steps it has taken: a step begins when it
\* is called and ends when it has returned, or when what it returned settled
Began(f, step, i) ==
    [f EXCEPT !.steps = Append(@, [step |-> step, idx |-> i, phase |-> "begins"])]

Ended(f) ==
    [f EXCEPT !.steps = Append(@, [@[Len(@)] EXCEPT !.phase = "ends"])]

Through(f, step) == Ended(Began(f, step, 0))

Suspend(s, f) == [s EXCEPT !.flights = Append(@, f), !.ret = Pending]

\* runBeforeListeners from index i on: the listener there is called and
\* awaited; past the end of the list the loop is over and navigate awaits
\* the result, true
CallBeforeListener(s, f, i) ==
    IF i <= Len(beforeRoute)
    THEN Suspend(s, [Began(f, "beforeRoute", i) EXCEPT
                        !.pc = "before", !.idx = i, !.listener = beforeRoute[i]])
    ELSE Suspend(s, [f EXCEPT !.pc = "beforeDone"])

\* handleError, were the forEach to end at the first listener that throws
handleErrorStopsAtThrow(s, type) ==
    LET called == [i \in 1..Len(routeError) |-> i]
        firstThrow == {i \in 1..Len(routeError) :
                          routeError[i] = "throw" /\ \A k \in 1..(i - 1) : routeError[k] # "throw"}
        last == IF firstThrow = {} THEN Len(routeError) ELSE CHOOSE i \in firstThrow : TRUE
    IN [s EXCEPT !.reported = Append(@, [type |-> type, called |-> SubSeq(called, 1, last)]),
                 !.dispatched = IF firstThrow = {} THEN Append(@, "router:error") ELSE @]

\* handleError: each routeError listener is called, in order, what it throws
\* is swallowed, and router:error is dispatched
handleError(s, type) ==
    [s EXCEPT !.reported = Append(@, [type |-> type,
                                      called |-> [i \in 1..Len(routeError) |-> i]]),
              !.dispatched = Append(@, "router:error")]

\* Finally, were the finally block missing
FinallyMissing(s) == s

\* the finally block
Finally(s) == [s EXCEPT !.isNavigating = FALSE]

\* the catch block
Catch(s) == [handleError(s, "navigation") EXCEPT !.ret = Ret(FALSE, "error")]

\* return false after a veto
Abort(s) == Finally([s EXCEPT !.isNavigating = FALSE, !.ret = Ret(FALSE, "vetoed")])

\* SameRoute, were the check made after previousRoute is stored
SameRouteAfterStore(s) ==
    [s EXCEPT !.previousRoute = s.currentRoute, !.isNavigating = FALSE,
              !.ret = Ret(TRUE, "same")]

\* return true on the route that is already current
SameRoute(s) == Finally([s EXCEPT !.isNavigating = FALSE, !.ret = Ret(TRUE, "same")])

\* Reject, were the entry check inside the try block, under its finally
RejectInsideTry(s) == [s EXCEPT !.isNavigating = FALSE, !.ret = Ret(FALSE, "rejected")]

\* the call that finds isNavigating set
Reject(s) == [s EXCEPT !.ret = Ret(FALSE, "rejected")]

\* Busy, were the entry check missing
BusyNever(s) == FALSE

\* the entry check: another navigation is in progress
Busy(s) == s.isNavigating

RECURSIVE navigate(_, _, _)
RECURSIVE handleNotFound(_, _)

navigate(s, path, options) ==
    IF Busy(s) THEN Reject(s)
    ELSE LET s1 == [s EXCEPT !.isNavigating = TRUE]
             normalizedPath == normalizePath(path)
         IN IF ~MapHas(routes, normalizedPath)
            THEN Finally(handleNotFound(s1, path))
            ELSE LET route == MapGet(routes, normalizedPath)
                 IN IF s1.currentRoute = normalizedPath /\ ~options.force
                    THEN SameRoute(s1)
                    ELSE CallBeforeListener(
                             [s1 EXCEPT !.previousRoute = s1.currentRoute],
                             Flight(path, normalizedPath, route, options, s1), 1)

\* handleNotFound, were the redirection to a path that has a route called
\* once isNavigating is reset
handleNotFoundAccepted(s, path) ==
    IF path = NULL /\ Len(routes) > 0 THEN Catch(s)
    ELSE LET similarRoute == findSimilarRoute(path)
             target == IF similarRoute # NULL THEN similarRoute ELSE defaultRoute
             inner == IF MapHas(routes, normalizePath(target))
                      THEN navigate([s EXCEPT !.isNavigating = FALSE], target, NoOptions)
                      ELSE navigate(s, target, NoOptions)
         IN [inner EXCEPT !.ret = Ret(inner.ret.value, "notfound")]

\* calculateSimilarity reads path.length, which throws on null
handleNotFound(s, path) ==
    IF path = NULL /\ Len(routes) > 0 THEN Catch(s)
    ELSE LET similarRoute == findSimilarRoute(path)
             inner == IF similarRoute # NULL
                      THEN navigate(s, similarRoute, NoOptions)
                      ELSE navigate(s, defaultRoute, NoOptions)
         IN [inner EXCEPT !.ret = Ret(inner.ret.value, "notfound")]

locationHref(s) ==
    <<"origin", "/">> \o (IF s.hash = NULL THEN <<>> ELSE <<"#">> \o s.hash)

\* pushState appends a session entry and shows the new fragment
pushState(s, path) ==
    [s EXCEPT !.hash = path, !.canGoBack = TRUE]

\* updateURL's test: the absolute href against the relative new URL
hrefDiffers(s, path) ==
    LET newURL == <<"/", "#">> \o path
    IN locationHref(s) # newURL

updateURL(s, path) ==
    IF hrefDiffers(s, path) THEN pushState(s, path) ELSE s

\* addToHistory, were the newest entry dropped (pop) instead of the oldest
addToHistoryDropsNewest(s, path, route) ==
    IF Len(s.history) > 0 /\ s.history[Len(s.history)].path = path THEN s
    ELSE LET pushed == Append(s.history, [path |-> path])
         IN [s EXCEPT !.history = IF Len(pushed) > maxHistoryLength
                                   THEN SubSeq(pushed, 1, Len(pushed) - 1) ELSE pushed]

addToHistory(s, path, route) ==
    IF Len(s.history) > 0 /\ s.history[Len(s.history)].path = path THEN s
    ELSE LET pushed == Append(s.history, [path |-> path])
         IN [s EXCEPT !.history = IF Len(pushed) > maxHistoryLength
                                   THEN Tail(pushed) ELSE pushed]

\* handleTransition, were the timers still pending cleared (clearTimeout)
\* when a transition starts
handleTransitionCancels(s) == [s EXCEPT !.transitionClass = TRUE, !.timers = 0]

\* handleTransition up to its await: the transition class is added to body
handleTransition(s) == [s EXCEPT !.transitionClass = TRUE]

\* handleTransition after its await: the timer that removes the class is set
setTimeout(s) == [s EXCEPT !.timers = @ + 1]

\* lines 167-181: the address, the current route, the history, and the
\* transition's await; pushOk is whether pushState returns or throws
Proceed(s, f, pushOk) ==
    IF ~f.options.fromHashChange /\ ~pushOk THEN Finally(Catch(s))
    ELSE LET s1 == IF ~f.options.fromHashChange
                   THEN updateURL(s, f.normalizedPath) ELSE s
             f1 == IF ~f.options.fromHashChange THEN Through(f, "updateURL") ELSE f
             s2 == [s1 EXCEPT !.currentRoute = f.normalizedPath]
             s3 == addToHistory(s2, f.normalizedPath, f.route)
             f3 == Through(f1, "addToHistory")
         IN Suspend(handleTransition(s3), [f3 EXCEPT !.pc = "transition",
                                  !.pushed = ~f.options.fromHashChange
                                             /\ hrefDiffers(s, f.normalizedPath),
                                  !.recorded = s3.history # s.history,
                                  !.evicted = s3.history # s.history
                                              /\ Len(s.history) = maxHistoryLength])

\* lines 153-165, once runBeforeListeners has returned true
AfterBefore(s, f, pushOk) ==
    IF f.route.beforeEnter # "none"
    THEN Suspend(s, [Began(f, "beforeEnter", 0) EXCEPT !.pc = "guard"])
    ELSE Proceed(s, f, pushOk)

\* ResumeBefore, were a listener that throws to veto as one that returns
\* false
ResumeBeforeThrowVetoes(s, f, pushOk) ==
    IF f.listener \in {"deny", "throw"} THEN Abort(s)
    ELSE IF f.idx + 1 <= Len(beforeRoute) THEN CallBeforeListener(s, Ended(f), f.idx + 1)
    ELSE AfterBefore(s, Ended(f), pushOk)

\* the listener awaited by runBeforeListeners has settled: false aborts, an
\* exception is swallowed, and the loop goes on over the list as it is now
ResumeBefore(s, f, pushOk) ==
    IF f.listener = "deny" THEN Abort(s)
    ELSE IF f.idx + 1 <= Len(beforeRoute) THEN CallBeforeListener(s, Ended(f), f.idx + 1)
    ELSE AfterBefore(s, Ended(f), pushOk)

\* ResumeGuard, were the guard's result ignored
ResumeGuardIgnoresResult(s, f, pushOk) == Proceed(s, f, pushOk)

\* runGuard resumes: a guard that throws counts as false
ResumeGuard(s, f, pushOk) ==
    IF f.route.beforeEnter \in {"deny", "throw"} THEN Abort(s)
    ELSE Proceed(s, Ended(f), pushOk)

\* the call of navigate made by the application's handler, and what it
\* returned
CallHandler(s, f) ==
    IF f.route.handler = "navigate" THEN navigate(s, f.route.path, NoOptions) ELSE s

\* ResumeTransition, were isNavigating reset before the handler is called
ResumeTransitionReleased(s, f) ==
    LET called == CallHandler([setTimeout(s) EXCEPT !.isNavigating = FALSE], f)
    IN Suspend(called, [Began(f, "handler", 0) EXCEPT
                           !.pc = "handler", !.handlerRan = TRUE, !.inner = called.ret])

\* handleTransition's delay is over: the timer is set and executeRoute calls
\* the handler
ResumeTransition(s, f) ==
    LET called == CallHandler(setTimeout(s), f)
    IN Suspend(called, [Began(f, "handler", 0) EXCEPT
                           !.pc = "handler", !.handlerRan = TRUE, !.inner = called.ret])

\* runAfterListeners, were the listeners called in a forEach, none awaited
CallAfterListenerNoAwait(s, f, i) ==
    IF i <= Len(afterRoute)
    THEN Suspend(s, [Began(Began(f, "afterRoute", i), "afterRoute", i + 1) EXCEPT
                        !.pc = "after", !.idx = i + 1, !.listener = afterRoute[i]])
    ELSE Suspend(s, [f EXCEPT !.pc = "afterDone"])

\* runAfterListeners from index i on, as runBeforeListeners
CallAfterListener(s, f, i) ==
    IF i <= Len(afterRoute)
    THEN Suspend(s, [Began(f, "afterRoute", i) EXCEPT
                        !.pc = "after", !.idx = i, !.listener = afterRoute[i]])
    ELSE Suspend(s, [f EXCEPT !.pc = "afterDone"])

\* the handler has settled: executeRoute catches what it threw and reports
\* it; the page is updated and runAfterListeners awaited
executeRoute(s, f) ==
    CallAfterListener(IF f.route.handler = "throw" THEN handleError(s, "handler") ELSE s,
                      Ended(f), 1)

ResumeHandler(s, f) == executeRoute(s, f)

\* Complete, were the event's from the previous path the call found
CompleteFromStale(s, f) ==
    Finally([s EXCEPT !.dispatched = Append(@, "router:navigated"),
                      !.navigated = Append(@, [from |-> f.startPrevious,
                                               to |-> f.normalizedPath]),
                      !.ret = Ret(TRUE, "done")])

\* lines 216-231: router:navigated, return true
Complete(s, f) ==
    Finally([s EXCEPT !.dispatched = Append(@, "router:navigated"),
                      !.navigated = Append(@, [from |-> s.previousRoute,
                                               to |-> f.normalizedPath]),
                      !.ret = Ret(TRUE, "done")])

\* lines 200-203, once runAfterListeners has returned
AfterAfter(s, f) ==
    IF f.route.afterEnter # "none"
    THEN Suspend(s, [Began(f, "afterEnter", 0) EXCEPT !.pc = "afterEnter"])
    ELSE Complete(s, f)

\* the listener awaited by runAfterListeners has settled, its exception
\* swallowed
ResumeAfter(s, f) ==
    IF f.idx + 1 <= Len(afterRoute) THEN CallAfterListener(s, Ended(f), f.idx + 1)
    ELSE AfterAfter(s, Ended(f))

\* runGuard(afterEnter) has settled: its result is not looked at
ResumeAfterEnter(s, f) == Complete(s, f)

Resume(s, f, pushOk) ==
    CASE f.pc = "before" -> ResumeBefore(s, f, pushOk)
      [] f.pc = "beforeDone" -> AfterBefore(s, f, pushOk)
      [] f.pc = "guard" -> ResumeGuard(s, f, pushOk)
      [] f.pc = "transition" -> ResumeTransition(s, f)
      [] f.pc = "handler" -> ResumeHandler(s, f)
      [] f.pc = "after" -> ResumeAfter(s, f)
      [] f.pc = "afterDone" -> AfterAfter(s, f)
      [] f.pc = "afterEnter" -> ResumeAfterEnter(s, f)

----------------------------------------------------------------------------
(* The contact form *)

\* the fields of the form that are modelled: one that is required and one
\* that is not
FieldNames == {"name", "subject"}

\* fieldConfig
required(fieldName) == fieldName = "name"

minLength(fieldName) == IF fieldName = "name" THEN 2 ELSE 0

\* localStorage has no item 'contact-form-draft': the item is kept as a
\* sequence of one draft or none
NoDraft == <<>>

\* validateField: what it returns
validateField(fieldName) ==
    LET value == trim(formFields[fieldName])
    IN /\ required(fieldName) => value # <<>>
       /\ value # <<>> => Len(value) >= minLength(fieldName)

validateAllFields == \A fieldName \in FieldNames : validateField(fieldName)

\* an input event on a field: the value is stored and debouncedAutoSave
\* called, which clears its timeout and sets it again
handleFieldInput(fieldName, value) ==
    /\ formFields' = [formFields EXCEPT ![fieldName] = value]
    /\ isDirty' = TRUE
    /\ hasInteracted' = TRUE
    /\ autoSaveTimeout' = TRUE
    /\ UNCHANGED <<isSubmitting, status, draft, submission>>
    /\ UNCHANGED routerVars

\* autoSaveForm: the draft written
autoSaveForm == <<[data |-> formFields]>>

\* the timeout set by debouncedAutoSave runs
AutoSaveDue ==
    /\ autoSaveTimeout
    /\ autoSaveTimeout' = FALSE
    /\ draft' = autoSaveForm
    /\ UNCHANGED <<formFields, isDirty, hasInteracted, isSubmitting, status, submission>>
    /\ UNCHANGED routerVars

\* the interval set by setupAutoSave runs
AutoSaveInterval ==
    /\ draft' = IF isDirty /\ hasInteracted THEN autoSaveForm ELSE draft
    /\ UNCHANGED <<formFields, isDirty, hasInteracted, isSubmitting, status,
                   autoSaveTimeout, submission>>
    /\ UNCHANGED routerVars

\* a submit event: handleFormSubmit, and submitForm up to its await
handleFormSubmit ==
    /\ IF isSubmitting
       THEN UNCHANGED <<isSubmitting, status, submission>>
       ELSE IF ~validateAllFields
       THEN status' = "error" /\ UNCHANGED <<isSubmitting, submission>>
       ELSE isSubmitting' = TRUE /\ submission' = TRUE /\ status' = status
    /\ UNCHANGED <<formFields, isDirty, hasInteracted, draft, autoSaveTimeout>>
    /\ UNCHANGED routerVars

\* resetFormState after contactForm.reset()
resetFormState == [fieldName \in FieldNames |-> <<>>]

\* simulateFormSubmission's promise settles and submitForm resumes: on
\* success handleSubmissionSuccess and clearSavedFormData, on failure
\* handleSubmissionError, then the finally block
SubmissionSettles(resolved) ==
    /\ submission
    /\ submission' = FALSE
    /\ isSubmitting' = FALSE
    /\ IF resolved
       THEN /\ status' = "success"
            /\ formFields' = resetFormState
            /\ isDirty' = FALSE
            /\ draft' = NoDraft
       ELSE /\ status' = "error"
            /\ UNCHANGED <<formFields, isDirty, draft>>
    /\ UNCHANGED <<hasInteracted, autoSaveTimeout>>
    /\ UNCHANGED routerVars

clearForm ==
    /\ formFields' = resetFormState
    /\ isDirty' = FALSE
    /\ draft' = NoDraft
    /\ UNCHANGED <<hasInteracted, isSubmitting, status, autoSaveTimeout, submission>>
    /\ UNCHANGED routerVars

----------------------------------------------------------------------------
(* Actions *)

MaxTimers == 1

Without(seq, i) == [k \in 1..(Len(seq) - 1) |-> IF k < i THEN seq[k] ELSE seq[k + 1]]

Commit(s) ==
    /\ isNavigating' = s.isNavigating
    /\ currentRoute' = s.currentRoute
    /\ previousRoute' = s.previousRoute
    /\ history' = s.history
    /\ hash' = s.hash
    /\ canGoBack' = s.canGoBack
    /\ transitionClass' = s.transitionClass
    /\ timers' = s.timers
    /\ flights' = s.flights
    /\ returned' = s.ret
    /\ reported' = s.reported
    /\ dispatched' = s.dispatched
    /\ navigated' = s.navigated
    /\ calc' = calc
    /\ UNCHANGED formVars

\* a call of navigate from outside the router
Navigate(path, options) ==
    /\ Commit(navigate(Fields, path, options))
    /\ UNCHANGED <<routes, beforeRoute, afterRoute, routeError>>

\* the event loop resumes the invocation parked at flights[i]
Step(i, pushOk) ==
    /\ i \in 1..Len(flights)
    /\ Commit(Resume([Fields EXCEPT !.flights = Without(flights, i)], flights[i], pushOk))
    /\ UNCHANGED <<routes, beforeRoute, afterRoute, routeError>>

BeforeListenersSettle ==
    \E i \in 1..Len(flights), pushOk \in BOOLEAN :
        flights[i].pc \in {"before", "beforeDone"} /\ Step(i, pushOk)

GuardSettles ==
    \E i \in 1..Len(flights), pushOk \in BOOLEAN :
        flights[i].pc = "guard" /\ Step(i, pushOk)

\* no more than MaxTimers timers are pending at once
TransitionDelayOver ==
    /\ timers < MaxTimers
    /\ \E i \in 1..Len(flights) : flights[i].pc = "transition" /\ Step(i, TRUE)

\* a timer set by handleTransition runs: the class is removed from body
TimerFires ==
    /\ timers > 0
    /\ timers' = timers - 1
    /\ transitionClass' = FALSE
    /\ UNCHANGED <<routes, currentRoute, previousRoute, isNavigating, history,
                   beforeRoute, afterRoute, routeError, hash, canGoBack, flights>>
    /\ returned' = Pending
    /\ reported' = <<>>
    /\ dispatched' = <<>>
    /\ navigated' = <<>>
    /\ calc' = calc
    /\ UNCHANGED formVars

HandlerSettles ==
    \E i \in 1..Len(flights) : flights[i].pc = "handler" /\ Step(i, TRUE)

AfterListenersSettle ==
    \E i \in 1..Len(flights) : flights[i].pc \in {"after", "afterDone"} /\ Step(i, TRUE)

AfterEnterSettles ==
    \E i \in 1..Len(flights) : flights[i].pc = "afterEnter" /\ Step(i, TRUE)

\* hashchange: the fragment became newHash, by an edit (a new session entry)
\* or by a traversal of the session history
handleHashChange(newHash, edit) ==
    /\ newHash # hash
    /\ edit \/ canGoBack
    /\ LET s == [Fields EXCEPT !.hash = newHash, !.canGoBack = TRUE]
           path == IF Falsy(newHash) THEN defaultRoute ELSE newHash
       IN IF path # currentRoute
          THEN Commit(navigate(s, path, FromHashChange))
          ELSE Commit(s)
    /\ UNCHANGED <<routes, beforeRoute, afterRoute, routeError>>

\* popstate: a traversal of the session history showed newHash
handlePopState(newHash) ==
    /\ canGoBack
    /\ LET s == [Fields EXCEPT !.hash = newHash]
           path == IF Falsy(newHash) THEN NULL ELSE newHash
       IN IF path # currentRoute
          THEN Commit(navigate(s, path, FromPopState))
          ELSE Commit(s)
    /\ UNCHANGED <<routes, beforeRoute, afterRoute, routeError>>

\* a click on <a href="#path">
handleLinkClick(path) ==
    /\ IF ~Falsy(path) /\ hasRoute(path)
       THEN Commit(navigate(Fields, path, NoOptions))
       ELSE Commit(Fields)
    /\ UNCHANGED <<routes, beforeRoute, afterRoute, routeError>>

validateCurrentRoute ==
    LET currentPath == IF Falsy(hash) THEN NULL ELSE hash
        target == IF Falsy(currentPath) THEN defaultRoute ELSE currentPath
    IN IF currentPath # currentRoute
       THEN Commit(navigate(Fields, target, NoOptions))
       ELSE Commit(Fields)

\* visibilitychange, the document being visible again
VisibilityChange ==
    /\ ~Falsy(currentRoute)
    /\ validateCurrentRoute
    /\ UNCHANGED <<routes, beforeRoute, afterRoute, routeError>>

\* typeof path === 'string': of the values here, all but null
IsString(path) == path # NULL

\* typeof handler === 'function'
IsFunction(handler) == handler \in HandlerKinds

\* addRoute's check, were the handler not looked at
ValidPathOnly(path, handler) == IsString(path)

\* the check at the head of addRoute
Valid(path, handler) == IsString(path) /\ IsFunction(handler)

addRoute(path, handler, beforeEnter) ==
    /\ IF Valid(path, handler)
       THEN /\ routes' = MapSet(routes, toLowerCase(path),
                                Route(toLowerCase(path), handler, beforeEnter))
            /\ returned' = Pending
       ELSE /\ routes' = routes
            /\ returned' = Ret(FALSE, "threw")
    /\ UNCHANGED <<currentRoute, previousRoute, isNavigating, history, beforeRoute,
                   afterRoute, routeError, hash, canGoBack, transitionClass, timers,
                   flights>>
    /\ reported' = <<>>
    /\ dispatched' = <<>>
    /\ navigated' = <<>>
    /\ calc' = calc
    /\ UNCHANGED formVars

removeRoute(path) ==
    /\ routes' = MapDelete(routes, toLowerCase(path))
    /\ UNCHANGED <<currentRoute, previousRoute, isNavigating, history, beforeRoute,
                   afterRoute, routeError, hash, canGoBack, transitionClass, timers,
                   flights>>
    /\ returned' = Ret(MapHas(routes, toLowerCase(path)), "removeRoute")
    /\ reported' = <<>>
    /\ dispatched' = <<>>
    /\ navigated' = <<>>
    /\ calc' = calc
    /\ UNCHANGED formVars

ListenerEvents == {"beforeRoute", "afterRoute", "routeError"}

Listeners(event) ==
    CASE event = "beforeRoute" -> beforeRoute
      [] event = "afterRoute" -> afterRoute
      [] event = "routeError" -> routeError

\* this.listeners[event] = list
SetListeners(event, list) ==
    /\ beforeRoute' = IF event = "beforeRoute" THEN list ELSE beforeRoute
    /\ afterRoute' = IF event = "afterRoute" THEN list ELSE afterRoute
    /\ routeError' = IF event = "routeError" THEN list ELSE routeError

on(event, callback) ==
    /\ event \in ListenerEvents
    /\ SetListeners(event, Append(Listeners(event), callback))
    /\ UNCHANGED <<routes, currentRoute, previousRoute, isNavigating, history,
                   hash, canGoBack, transitionClass, timers, flights>>
    /\ returned' = Pending
    /\ reported' = <<>>
    /\ dispatched' = <<>>
    /\ navigated' = <<>>
    /\ calc' = calc
    /\ UNCHANGED formVars

\* off(event, callback): the first occurrence is spliced out
off(event, callback) ==
    /\ event \in ListenerEvents
    /\ \E i \in 1..Len(Listeners(event)) :
          /\ Listeners(event)[i] = callback
          /\ \A k \in 1..(i - 1) : Listeners(event)[k] # callback
          /\ SetListeners(event, Without(Listeners(event), i))
    /\ UNCHANGED <<routes, currentRoute, previousRoute, isNavigating, history,
                   hash, canGoBack, transitionClass, timers, flights>>
    /\ returned' = Pending
    /\ reported' = <<>>
    /\ dispatched' = <<>>
    /\ navigated' = <<>>
    /\ calc' = calc
    /\ UNCHANGED formVars

back ==
    /\ IF Len(history) > 1
       THEN LET popped == SubSeq(history, 1, Len(history) - 1)
                previous == popped[Len(popped)]
            IN Commit(navigate([Fields EXCEPT !.history = popped], previous.path,
                               SkipHistory))
       ELSE IF canGoBack
       THEN Commit([Fields EXCEPT !.ret = Ret(TRUE, "history.back")])
       ELSE Commit(navigate(Fields, defaultRoute, NoOptions))
    /\ UNCHANGED <<routes, beforeRoute, afterRoute, routeError>>

clearHistory ==
    /\ history' = <<>>
    /\ UNCHANGED <<routes, currentRoute, previousRoute, isNavigating, beforeRoute,
                   afterRoute, routeError, hash, canGoBack, transitionClass, timers,
                   flights>>
    /\ returned' = Pending
    /\ reported' = <<>>
    /\ dispatched' = <<>>
    /\ navigated' = <<>>
    /\ calc' = calc
    /\ UNCHANGED formVars

\* cleanup(): the routes, the history and the listener lists are emptied;
\* the hashchange, popstate and click handlers it removes have no part in
\* the specifications that call it
cleanup ==
    /\ routes' = <<>>
    /\ history' = <<>>
    /\ beforeRoute' = <<>>
    /\ afterRoute' = <<>>
    /\ routeError' = <<>>
    /\ UNCHANGED <<currentRoute, previousRoute, isNavigating, hash, canGoBack,
                   transitionClass, timers, flights>>
    /\ returned' = Pending
    /\ reported' = <<>>
    /\ dispatched' = <<>>
    /\ navigated' = <<>>
    /\ calc' = calc
    /\ UNCHANGED formVars

----------------------------------------------------------------------------
(* The specifications.  The application has registered its routes: home    *)
(* has no guard, about a beforeEnter guard that allows, contact one that   *)
(* returns false.  The environment calls the router and the browser raises *)
(* its events.                                                             *)

\* no navigation is requested once the history holds HistCap entries, nor
\* while a transition timer is pending: the requests of a rapid sequence
\* are those of SpecTimers
HistCap == 2

MaxListeners == 1

Entry(path, handler, beforeEnter) ==
    [key |-> path, value |-> Route(path, handler, beforeEnter)]

\* addRoute(path, handler, {beforeEnter, afterEnter})
Hooked(path, handler, beforeEnter, afterEnter) ==
    [key |-> path, value |-> WithAfterEnter(Route(path, handler, beforeEnter), afterEnter)]

InitRoutes ==
    <<Entry(home, "ok", "none"), Hooked(about, "ok", "allow", "throw"),
      Entry(contact, "ok", "deny")>>

NavPaths == {home, about, contact, abou, abuot}

\* navigate(path) for each path, and a forced navigation
NavInputs == {<<path, NoOptions>> : path \in NavPaths} \cup {<<about, Forced>>}

HashPaths == {NULL, about}

LinkPaths == {contact, far}

Room == Len(history) < HistCap /\ timers = 0

\* the router once the application has registered the routes of table
InitWith(table) ==
    /\ routes = table
    /\ currentRoute = NULL
    /\ previousRoute = NULL
    /\ isNavigating = FALSE
    /\ history = <<>>
    /\ beforeRoute = <<>>
    /\ afterRoute = <<>>
    /\ routeError = <<>>
    /\ hash = NULL
    /\ canGoBack = FALSE
    /\ transitionClass = FALSE
    /\ timers = 0
    /\ flights = <<>>
    /\ returned = Pending
    /\ reported = <<>>
    /\ dispatched = <<>>
    /\ navigated = <<>>
    /\ calc = NoCall
    /\ formFields = [fieldName \in FieldNames |-> <<>>]
    /\ isDirty = FALSE
    /\ hasInteracted = FALSE
    /\ isSubmitting = FALSE
    /\ status = "none"
    /\ draft = NoDraft
    /\ autoSaveTimeout = FALSE
    /\ submission = FALSE

Init == InitWith(InitRoutes)

NavigateCall ==
    Room /\ \E in \in NavInputs : Navigate(in[1], in[2])

HashChange ==
    Room /\ \E newHash \in HashPaths, edit \in BOOLEAN : handleHashChange(newHash, edit)

PopState == Room /\ \E newHash \in HashPaths : handlePopState(newHash)

LinkClick == Room /\ \E path \in LinkPaths : handleLinkClick(path)

Visibility == Room /\ VisibilityChange

Back == back

ClearHistory == clearHistory

\* the before listeners registered here return true or false
BeforeKinds == {"allow", "deny"}

On ==
    Len(beforeRoute) < MaxListeners /\ \E callback \in BeforeKinds : on("beforeRoute", callback)

Off == \E callback \in BeforeKinds : off("beforeRoute", callback)

Settle ==
    \/ BeforeListenersSettle
    \/ GuardSettles
    \/ TransitionDelayOver
    \/ HandlerSettles
    \/ AfterListenersSettle
    \/ AfterEnterSettles

Next ==
    \/ NavigateCall
    \/ Settle
    \/ TimerFires
    \/ HashChange
    \/ PopState
    \/ LinkClick
    \/ Visibility
    \/ Back
    \/ ClearHistory
    \/ On
    \/ Off

Spec == Init /\ [][Next]_vars

(* The route table under registration and removal, with navigation to the  *)
(* routes it holds.                                                        *)

\* what is passed as handler and is no function
NotAFunction == "undefined"

AddInputs ==
    {<<PaddedFaq, "ok", "none">>, <<Empty, "ok", "none">>, <<About, "throw", "none">>,
     <<NULL, "ok", "none">>, <<about, NotAFunction, "none">>}

RemoveInputs == {about, PaddedFaq, PaddedHome}

TablePaths == {about, PaddedFaq, Empty}

AddRoute == \E in \in AddInputs : addRoute(in[1], in[2], in[3])

RemoveRoute == \E path \in RemoveInputs : removeRoute(path)

NavigateTable == Room /\ \E path \in TablePaths : Navigate(path, NoOptions)

NextTable ==
    \/ AddRoute
    \/ RemoveRoute
    \/ NavigateTable
    \/ Settle
    \/ TimerFires

SpecTable == Init /\ [][NextTable]_vars

(* The history at its full length: navigation between the two routes that  *)
(* can be entered, back() and clearHistory(), with no cap on the requests. *)

HistPaths == {home, about}

NavigateHist == \E path \in HistPaths : Navigate(path, NoOptions)

NextHist ==
    \/ NavigateHist
    \/ Settle
    \/ TimerFires
    \/ Back
    \/ ClearHistory

SpecHist == Init /\ [][NextHist]_vars

(* Navigations in rapid sequence: requests arrive while the timers of      *)
(* earlier transitions are pending.                                        *)

RapidPaths == {home, about}

NavigateRapid ==
    Len(history) < HistCap /\ \E path \in RapidPaths : Navigate(path, NoOptions)

NextTimers ==
    \/ NavigateRapid
    \/ Settle
    \/ TimerFires
    \/ Back
    \/ ClearHistory

SpecTimers == Init /\ [][NextTimers]_vars

(* calculateEditDistance on its own, called with every pair of strings of  *)
(* MaxLen characters or fewer over the alphabet.                           *)

MaxLen == 3

Alphabet == {"a", "b"}

Strings == UNION {[1..n -> Alphabet] : n \in 0..MaxLen}

CallEditDistance(str1, str2) ==
    /\ calc' = [str1 |-> str1, str2 |-> str2,
                distance |-> calculateEditDistance(str1, str2)]
    /\ UNCHANGED <<routes, currentRoute, previousRoute, isNavigating, history,
                   beforeRoute, afterRoute, routeError, hash, canGoBack,
                   transitionClass, timers, flights, returned, reported, dispatched,
                   navigated>>
    /\ UNCHANGED formVars

NextDistance == \E str1 \in Strings, str2 \in Strings : CallEditDistance(str1, str2)

SpecDistance == Init /\ [][NextDistance]_vars

(* Callbacks that throw: the handler of home, the beforeEnter guard of      *)
(* about and the afterEnter hook of contact throw; after and error         *)
(* listeners are registered and removed.                                   *)

MaxErrorListeners == 2

ErrRoutes ==
    <<Entry(home, "throw", "none"), Hooked(about, "ok", "throw", "none"),
      Hooked(contact, "ok", "allow", "throw")>>

ErrPaths == {home, about, contact}

\* what an after listener or an error listener does: return, or throw
SinkKinds == {"allow", "throw"}

InitErr == InitWith(ErrRoutes)

NavigateErr == Room /\ \E path \in ErrPaths : Navigate(path, NoOptions)

OnErr ==
    \/ Len(routeError) < MaxErrorListeners /\ \E callback \in SinkKinds : on("routeError", callback)
    \/ Len(afterRoute) < MaxListeners /\ \E callback \in SinkKinds : on("afterRoute", callback)

OffErr == \E event \in {"routeError", "afterRoute"}, callback \in SinkKinds : off(event, callback)

NextErr ==
    \/ NavigateErr
    \/ Settle
    \/ TimerFires
    \/ OnErr
    \/ OffErr

SpecErr == InitErr /\ [][NextErr]_vars

(* The steps of a navigation, with before and after listeners registered   *)
(* and removed while navigations run over the same routes.                 *)

OnSteps ==
    \/ Len(beforeRoute) < MaxListeners /\ \E callback \in SinkKinds : on("beforeRoute", callback)
    \/ Len(afterRoute) < MaxListeners /\ \E callback \in SinkKinds : on("afterRoute", callback)

OffSteps == \E event \in {"beforeRoute", "afterRoute"}, callback \in SinkKinds : off(event, callback)

NextSteps ==
    \/ NavigateErr
    \/ Settle
    \/ TimerFires
    \/ OnSteps
    \/ OffSteps

SpecSteps == InitErr /\ [][NextSteps]_vars

----------------------------------------------------------------------------
(* The router as the application sets it up: each route's handler is     *)
(* navigateToSection, which calls navigate with the route's own path.    *)

AppRoutes ==
    <<Entry(home, "navigate", "none"), Entry(about, "navigate", "none"),
      Entry(contact, "navigate", "none")>>

AppPaths == {home, about, contact}

NavigateApp == Room /\ \E path \in AppPaths : Navigate(path, NoOptions)

NextApp ==
    \/ NavigateApp
    \/ BeforeListenersSettle
    \/ TransitionDelayOver
    \/ HandlerSettles
    \/ AfterListenersSettle
    \/ TimerFires
    \/ HashChange
    \/ Back

SpecApp == InitWith(AppRoutes) /\ [][NextApp]_vars

----------------------------------------------------------------------------
(* The router while routes are removed, the default route among them, and *)
(* after cleanup(), with calls of navigate and back going on.             *)

BareRemovals == {home, about, contact}

BarePaths == {home, about, abuot, far, NULL}

RemoveBare == \E path \in BareRemovals : removeRoute(path)

NavigateBare == Room /\ \E path \in BarePaths : Navigate(path, NoOptions)

Cleanup == cleanup

AddBare == addRoute(About, "ok", "none")

NextBare ==
    \/ RemoveBare
    \/ AddBare
    \/ Cleanup
    \/ NavigateBare
    \/ Settle
    \/ TimerFires
    \/ Back

SpecBare == Init /\ [][NextBare]_vars

----------------------------------------------------------------------------
(* The before listeners, returning, vetoing or throwing, ahead of guards *)
(* that allow or throw.                                                  *)

MaxBeforeListeners == 2

OnBefore ==
    /\ Len(beforeRoute) < MaxBeforeListeners
    /\ \E callback \in ListenerKinds : on("beforeRoute", callback)

OffBefore == \E callback \in ListenerKinds : off("beforeRoute", callback)

NextBefore ==
    \/ NavigateErr
    \/ Settle
    \/ TimerFires
    \/ OnBefore
    \/ OffBefore

SpecBefore == InitErr /\ [][NextBefore]_vars

----------------------------------------------------------------------------
(* The contact form on its own: the user types, submits and clears, the  *)
(* timers run and the submission settles either way.                     *)

Typed == {<<>>, <<"A">>, <<"A", "n", "a">>}

FieldInput == \E fieldName \in FieldNames, value \in Typed : handleFieldInput(fieldName, value)

FormSubmit == handleFormSubmit

SubmissionResolves == SubmissionSettles(TRUE)

SubmissionRejects == SubmissionSettles(FALSE)

ClearForm == clearForm

NextForm ==
    \/ FieldInput
    \/ AutoSaveDue
    \/ AutoSaveInterval
    \/ FormSubmit
    \/ SubmissionResolves
    \/ SubmissionRejects
    \/ ClearForm

SpecForm == Init /\ [][NextForm]_vars

----------------------------------------------------------------------------
(* Properties *)

Idle == ~isNavigating /\ flights = <<>>

Registered(path) == MapHas(routes, normalizePath(path))

\* a / b >= c / d, for positive denominators
FracAtLeast(x, y) == x[1] * y[2] >= y[1] * x[2]

\* the registered paths closest to path, none being closer
Closest(path) ==
    {k \in {routes[i].key : i \in 1..Len(routes)} :
        \A i \in 1..Len(routes) :
            FracAtLeast(calculateSimilarity(path, k), calculateSimilarity(path, routes[i].key))}

\* where the spec sends a path that has no route
RedirectTargets(path) ==
    LET near == {k \in Closest(path) : FracAtLeast(calculateSimilarity(path, k), Threshold)}
    IN IF near # {} THEN near ELSE {defaultRoute}

\* C1: navigate(p) on an idle router, p having no route and the default
\* route being registered, leaves as current path the closest registered
\* path when its similarity is at least 0.6, and the default route otherwise.
C1_UnknownPathRedirects ==
    [][\A path \in NavPaths :
          (Idle /\ ~Registered(path) /\ Registered(defaultRoute)
                /\ Navigate(path, NoOptions))
          => currentRoute' \in RedirectTargets(path)]_vars

\* C2: no two invocations of navigate are past the entry check at once, and
\* a call that was rejected leaves nothing behind to run later.
C2_OneNavigationInFlight ==
    [][/\ Len(flights') <= 1
       /\ (flights' # <<>> => isNavigating')
       /\ (returned'.why = "rejected" => flights' = flights)
       /\ (Len(flights') > Len(flights) => ~isNavigating /\ returned'.why = "pending")]_vars

C2_Witness ==
    /\ Len(flights) = 1
    /\ flights[1].pc = "handler"
    /\ returned.why = "rejected"

\* C3: a navigate call made while an earlier one has not resolved returns
\* false and changes no field of the router, the address, or the earlier
\* invocation.
C3_ConcurrentCallRejected ==
    [][\A in \in NavInputs :
          (flights # <<>> /\ Navigate(in[1], in[2]))
          => /\ returned' = Ret(FALSE, "rejected")
             /\ UNCHANGED <<currentRoute, previousRoute, history, hash, canGoBack,
                            isNavigating, flights>>]_vars

C3_Witness ==
    /\ Len(flights) = 1
    /\ flights[1].pc = "transition"
    /\ currentRoute = about
    /\ returned = Ret(FALSE, "rejected")

Resolved == {"done", "same", "notfound", "vetoed", "error"}

\* C4: when an accepted navigate call resolves, by success, same route,
\* unknown route, veto or exception, isNavigating is false; it is true only
\* while an invocation is suspended.
C4_ResolvedMeansIdle ==
    /\ returned.why \in Resolved => ~isNavigating
    /\ flights = <<>> => ~isNavigating

C4_Witness == returned.why = "error" /\ ~isNavigating /\ previousRoute = home

\* C5: with home, about and contact registered, navigate("abuot") finds the
\* edit distance to "about" to be 1, the similarity 0.8, and makes about the
\* current path.
C5_AbuotRedirectsToAbout ==
    [][(Idle /\ MapKeys(routes) = <<home, about, contact>>
             /\ Navigate(abuot, NoOptions))
       => /\ calculateEditDistance(abuot, about) = 1
          /\ calculateSimilarity(abuot, about)[1] * 5 = 4 * calculateSimilarity(abuot, about)[2]
          /\ currentRoute' = about]_vars

\* C6: every route in the table is found by hasRoute under the path it was
\* stored with.
C6_StoredPathHasRoute == \A i \in 1..Len(routes) : hasRoute(routes[i].value.path)

\* C7: navigating without force to the route that is current returns true
\* and changes nothing: no field, no history entry, no address, and no
\* invocation is left to run a listener or the handler.
C7_SameRouteNoOp ==
    [][\A path \in NavPaths :
          (Idle /\ Registered(path) /\ currentRoute = normalizePath(path)
                /\ Navigate(path, NoOptions))
          => /\ returned' = Ret(TRUE, "same")
             /\ UNCHANGED <<currentRoute, previousRoute, history, hash, canGoBack,
                            isNavigating, flights>>]_vars

C7_Witness ==
    /\ returned = Ret(TRUE, "same")
    /\ currentRoute = about
    /\ previousRoute = home
    /\ hash = about
    /\ Len(history) = 1

Last(seq) == seq[Len(seq)]

\* C8: the history never holds more than maxHistoryLength entries, and a
\* navigation that records a new path appends it, dropping the head of a
\* full list.
C8_HistoryBounded ==
    [][/\ Len(history') <= maxHistoryLength
       /\ (currentRoute' # currentRoute
             /\ (history = <<>> \/ Last(history).path # currentRoute'))
          => history' = IF Len(history) = maxHistoryLength
                        THEN Append(Tail(history), [path |-> currentRoute'])
                        ELSE Append(history, [path |-> currentRoute'])]_vars

C8_Witness ==
    /\ Len(history) = maxHistoryLength
    /\ Len(flights) = 1
    /\ flights[1].evicted

\* C9: when the beforeEnter guard of the target route returns false, the
\* call returns false, the current path is the one before the call and the
\* handler is not invoked.
C9_GuardVeto ==
    [][(/\ Len(flights) = 1
        /\ flights[1].pc = "guard"
        /\ flights[1].route.beforeEnter = "deny"
        /\ flights' # flights)
       => /\ returned' = Ret(FALSE, "vetoed")
          /\ currentRoute' = flights[1].startCurrent
          /\ ~flights[1].handlerRan
          /\ flights' = <<>>]_vars

C9_Witness ==
    /\ returned = Ret(FALSE, "vetoed")
    /\ beforeRoute = <<>>
    /\ currentRoute = home
    /\ flights = <<>>

\* C10: a navigation aborted by a before listener or by beforeEnter leaves
\* currentPath, previousPath and the history as they were before the call,
\* and has not called pushState.
C10_VetoChangesNothing ==
    [][(Len(flights) = 1 /\ returned'.why = "vetoed")
       => /\ currentRoute' = flights[1].startCurrent
          /\ previousRoute' = flights[1].startPrevious
          /\ history' = history
          /\ ~flights[1].recorded
          /\ ~flights[1].pushed
          /\ hash' = hash]_vars

\* the record handleError builds for the error listeners, each called once
ErrorRecord(type) == [type |-> type, called |-> [i \in 1..Len(routeError) |-> i]]

\* C11: when the handler of the route throws, the exception is caught: each
\* routeError listener is called once with a record of type handler,
\* router:error is dispatched, the invocation goes on, and when it ends
\* navigate has returned a value and isNavigating is false.
C11_HandlerThrowReported ==
    [][(Len(flights) = 1 /\ flights[1].route.handler = "throw")
       => /\ (flights[1].pc = "handler" /\ flights' # flights)
             => /\ reported' = <<ErrorRecord("handler")>>
                /\ dispatched' = <<"router:error">>
                /\ Len(flights') = 1
          /\ flights' = <<>> => (~isNavigating' /\ returned'.why \in Resolved)]_vars

C11_Witness ==
    /\ Len(routeError) = 2
    /\ routeError[1] = "throw"
    /\ reported = <<[type |-> "handler", called |-> <<1, 2>>]>>
    /\ dispatched = <<"router:error">>
    /\ Len(flights) = 1
    /\ flights[1].pc \in {"after", "afterDone"}

\* C12: when the beforeEnter guard or the afterEnter hook of the route
\* throws, the error listeners are called and router:error is dispatched.
C12_GuardThrowReported ==
    [][(/\ Len(flights) = 1
        /\ \/ flights[1].pc = "guard" /\ flights[1].route.beforeEnter = "throw"
           \/ flights[1].pc = "afterEnter" /\ flights[1].route.afterEnter = "throw"
        /\ flights' # flights)
       => /\ reported' # <<>>
          /\ \E i \in 1..Len(dispatched') : dispatched'[i] = "router:error"]_vars

\* C13: a navigation whose handler threw does not return success and does
\* not dispatch router:navigated.
C13_HandlerThrowAborts ==
    [][(/\ Len(flights) = 1
        /\ flights[1].route.handler = "throw"
        /\ flights[1].handlerRan
        /\ flights' = <<>>)
       => /\ ~returned'.value
          /\ \A i \in 1..Len(dispatched') : dispatched'[i] # "router:navigated"]_vars

\* C14: an invocation of navigate made by the hashchange handler or by the
\* popstate handler has not called pushState; an invocation of another
\* origin that is past the address update has.
C14_EventNavigationsDoNotPush ==
    \A i \in 1..Len(flights) :
        LET f == flights[i]
        IN IF f.options.fromHashChange \/ f.options.fromPopState
           THEN ~f.pushed
           ELSE f.pc \in {"transition", "handler", "after", "afterDone", "afterEnter"}
                => f.pushed

Front(seq) == SubSeq(seq, 1, Len(seq) - 1)

\* C15: back() on an idle router with two local entries or more drops the
\* last entry and navigates to the one before it, and when that navigation
\* ends the current path is that entry's path, the history being the one
\* back() left; with fewer entries it calls history.back() when the session
\* has an entry to go back to, and navigates to the default route otherwise.
C15_BackReturnsToPriorEntry ==
    [][/\ (Idle /\ Len(history) >= 2 /\ back)
          => /\ history' = Front(history)
             /\ \/ returned'.why = "same" /\ currentRoute' = Last(history').path
                \/ /\ Len(flights') = 1
                   /\ flights'[1].normalizedPath = Last(history').path
       /\ (/\ Len(flights) = 1
           /\ flights[1].options.skipHistory
           /\ flights' = <<>>)
          => /\ currentRoute' = flights[1].normalizedPath
             /\ history' = history
       /\ (Idle /\ Len(history) < 2 /\ back)
          => IF canGoBack
             THEN returned' = Ret(TRUE, "history.back") /\ UNCHANGED <<currentRoute, history, flights>>
             ELSE \/ returned'.why = "same" /\ currentRoute' = defaultRoute
                  \/ Len(flights') = 1 /\ flights'[1].normalizedPath = defaultRoute]_vars

\* C16: addRoute throws exactly when path is no string or handler no
\* function, and the call that throws leaves the route table as it was.
C16_AddRouteThrows ==
    [][\A in \in AddInputs :
          addRoute(in[1], in[2], in[3])
          => IF IsString(in[1]) /\ IsFunction(in[2])
             THEN returned'.why # "threw"
             ELSE returned'.why = "threw" /\ routes' = routes]_vars

C16_Witness ==
    /\ returned = Ret(FALSE, "threw")
    /\ Len(routes) = 5
    /\ MapGet(routes, about).handler = "throw"

\* C17: removeRoute(p) returns true exactly when a route is registered under
\* the key hasRoute(p) and navigate(p) look up, removes that route and no
\* other, leaving hasRoute(p) false; otherwise it changes nothing.
C17_RemoveRouteByKey ==
    [][\A path \in RemoveInputs :
          removeRoute(path)
          => /\ returned'.value <=> hasRoute(path)
             /\ routes' = MapDelete(routes, normalizePath(path))
             /\ ~MapHas(routes', normalizePath(path))]_vars

\* the place of a step in the order of navigate
Rank(step) ==
    CASE step = "beforeRoute" -> 1
      [] step = "beforeEnter" -> 2
      [] step = "updateURL" -> 3
      [] step = "addToHistory" -> 4
      [] step = "handler" -> 5
      [] step = "afterRoute" -> 6
      [] step = "afterEnter" -> 7

\* a step begins only when the one before it has ended, and later steps
\* come later: listeners of one list by rising index, no other step twice
InOrder(steps) ==
    /\ \A k \in 1..Len(steps) :
          IF k % 2 = 1 THEN steps[k].phase = "begins"
          ELSE steps[k] = [steps[k - 1] EXCEPT !.phase = "ends"]
    /\ \A k \in 1..Len(steps), l \in 1..Len(steps) :
          (k < l /\ steps[k].phase = "begins" /\ steps[l].phase = "begins")
          => \/ Rank(steps[k].step) < Rank(steps[l].step)
             \/ /\ steps[k].step = steps[l].step
                /\ steps[k].step \in {"beforeRoute", "afterRoute"}
                /\ steps[k].idx < steps[l].idx

Took(steps, step) == \E k \in 1..Len(steps) : steps[k].step = step

C19_TimersNeverCancelled ==
    [][/\ timers' < timers => (timers' = timers - 1 /\ ~transitionClass')
       /\ (transitionClass /\ ~transitionClass') => timers' = timers - 1
       /\ (Len(flights) = 1 /\ flights[1].pc = "transition" /\ flights' # flights)
          => timers' = timers + 1]_vars

\* the second navigation is inside handleTransition, its own timer not yet
\* set, and the class it added is gone
C19_Witness ==
    /\ Len(flights) = 1
    /\ flights[1].pc = "transition"
    /\ flights[1].startCurrent # NULL
    /\ ~transitionClass
    /\ timers = 0

Least(S) == CHOOSE m \in S : \A x \in S : m <= x

\* the Levenshtein distance: the least number of insertions, deletions and
\* substitutions of one character that turn a into b
RECURSIVE Levenshtein(_, _)
Levenshtein(a, b) ==
    IF a = <<>> THEN Len(b)
    ELSE IF b = <<>> THEN Len(a)
    ELSE Least({Levenshtein(Tail(a), b) + 1,
                Levenshtein(a, Tail(b)) + 1,
                Levenshtein(Tail(a), Tail(b)) + (IF Head(a) = Head(b) THEN 0 ELSE 1)})

\* C20: calculateEditDistance returns the Levenshtein distance of its
\* arguments, the same with the arguments exchanged, and 0 exactly when
\* they are equal.
C20_EditDistanceIsLevenshtein ==
    calc # NoCall
    => /\ calc.distance = Levenshtein(calc.str1, calc.str2)
       /\ calc.distance = calculateEditDistance(calc.str2, calc.str1)
       /\ calc.distance = 0 <=> calc.str1 = calc.str2

C20_Witness ==
    /\ calc.str1 = <<"a", "b", "a">>
    /\ calc.str2 = <<"b", "b">>
    /\ calc.distance = 2

\* C21: a hashchange or popstate event that shows a registered route is fed
\* to navigate and taken up: after the handler has run, that route is the
\* current path or an invocation of navigate for it is in flight, also when
\* the event arrives while another navigation is in flight.
C21_FragmentChangeTakenUp ==
    [][\A p \in HashPaths :
         (/\ ~Falsy(p)
          /\ Registered(p)
          /\ \/ handleHashChange(p, TRUE)
             \/ handleHashChange(p, FALSE)
             \/ handlePopState(p))
         => \/ currentRoute' = p
            \/ \E i \in 1..Len(flights') : flights'[i].normalizedPath = p]_vars

NavigatedEvents == {i \in 1..Len(dispatched) : dispatched[i] = "router:navigated"}

\* C22: the step in which an invocation of navigate returns true past the
\* same-route check dispatches one router:navigated event, its to being the
\* new current path and its from the path that was current when the
\* invocation was called; no other step dispatches router:navigated.
C22_OneNavigatedEvent ==
    [][IF returned'.why = "done"
       THEN /\ returned'.value
            /\ Cardinality(NavigatedEvents') = 1
            /\ \E i \in 1..Len(flights) :
                  /\ flights' = Without(flights, i)
                  /\ navigated' = <<[from |-> flights[i].startCurrent,
                                     to |-> currentRoute']>>
                  /\ currentRoute' = flights[i].normalizedPath
       ELSE NavigatedEvents' = {} /\ navigated' = <<>>]_vars

C22_Witness ==
    /\ returned = Ret(TRUE, "done")
    /\ navigated = <<[from |-> home, to |-> about]>>
    /\ dispatched = <<"router:navigated">>
    /\ previousRoute = home

NoRepeat(h) == \A i \in 1..(Len(h) - 1) : h[i].path # h[i + 1].path

\* C23: no two adjacent entries of the history have the same path, and
\* when an invocation of navigate that changed the route returns true, the
\* path of the last entry of the history is the new current path.
C23_HistoryEndsAtCurrent ==
    [][/\ NoRepeat(history')
       /\ \A i \in 1..Len(flights) :
            (/\ flights' = Without(flights, i)
             /\ returned' = Ret(TRUE, "done")
             /\ flights[i].startCurrent # flights[i].normalizedPath)
            => /\ history' # <<>>
               /\ Last(history').path = currentRoute']_vars

UniqueKeys(m) == \A i, j \in 1..Len(m) : m[i].key = m[j].key => i = j

\* C24: addRoute with a path that differs only in case from a registered
\* key does not throw and replaces that key's route, the number of routes
\* being unchanged and no key occurring twice; an invocation of navigate
\* called after that takes the route registered last, and the handler it
\* runs is that route's.
C24_ReRegistrationReplaces ==
    [][/\ UniqueKeys(routes')
       /\ \A in \in AddInputs :
            (/\ Valid(in[1], in[2])
             /\ MapHas(routes, toLowerCase(in[1]))
             /\ addRoute(in[1], in[2], in[3]))
            => /\ returned' # Ret(FALSE, "threw")
               /\ Len(routes') = Len(routes)
               /\ MapKeys(routes') = MapKeys(routes)
               /\ MapGet(routes', toLowerCase(in[1])).handler = in[2]
       /\ \A path \in TablePaths :
            (Navigate(path, NoOptions) /\ Len(flights') > Len(flights))
            => Last(flights').route = MapGet(routes', normalizePath(path))]_vars

C24_Witness ==
    /\ Len(routes) = Len(InitRoutes)
    /\ MapHas(routes, about)
    /\ MapGet(routes, about).handler = "throw"
    /\ Len(flights) = 1
    /\ flights[1].normalizedPath = about
    /\ flights[1].route.handler = "throw"
    /\ flights[1].handlerRan

\* C25: when an invocation of navigate calls a handler that calls navigate,
\* the inner call returns false at the isNavigating check and starts no
\* invocation; the step changes no field of the router; and the outer
\* invocation, when it ends, returns true with its path current.
C25_NestedCallRejected ==
    [][\A i \in 1..Len(flights) :
         /\ (/\ flights[i].pc = "transition"
             /\ flights[i].route.handler = "navigate"
             /\ Step(i, TRUE))
            => /\ Len(flights') = Len(flights)
               /\ Last(flights').pc = "handler"
               /\ Last(flights').inner = Ret(FALSE, "rejected")
               /\ isNavigating'
               /\ UNCHANGED <<currentRoute, previousRoute, history, hash, routes>>
               /\ dispatched' = <<>>
         /\ (/\ flights[i].inner # Pending
             /\ flights' = Without(flights, i))
            => /\ returned' = Ret(TRUE, "done")
               /\ currentRoute' = flights[i].normalizedPath
               /\ ~isNavigating']_vars

C25_Witness ==
    /\ returned = Ret(TRUE, "done")
    /\ currentRoute = about
    /\ previousRoute = home
    /\ MapGet(routes, about).handler = "navigate"
    /\ flights = <<>>

\* C26: navigate(p) on an idle router, p having no route, returns false in
\* the step of the call, whether or not the default route is registered and
\* also when no route is: no invocation is left in flight, isNavigating is
\* false and the current path is unchanged.
C26_UnknownPathTerminates ==
    [][\A path \in BarePaths :
         (Idle /\ ~Registered(path) /\ Navigate(path, NoOptions))
         => /\ returned'.why \in {"notfound", "error"}
            /\ ~returned'.value
            /\ flights' = <<>>
            /\ ~isNavigating'
            /\ currentRoute' = currentRoute]_vars

C26_Witness ==
    /\ routes = <<>>
    /\ returned = Ret(FALSE, "notfound")
    /\ ~isNavigating
    /\ flights = <<>>
    /\ currentRoute = about

\* C27: whenever the router is idle and the history is not empty, the path
\* of the last entry of the history is the current path.
C27_IdleHistoryEndsAtCurrent ==
    (Idle /\ history # <<>>) => Last(history).path = currentRoute

\* C28: the current path is null or a key of the route table.
C28_CurrentPathRegistered ==
    currentRoute = NULL \/ MapHas(routes, currentRoute)

\* C29: when a before listener has thrown, the invocation is not aborted:
\* the next listener of the list is called, or after the last one the
\* route's beforeEnter, or without one the route is entered; when
\* beforeEnter has thrown, the invocation ends as it does when beforeEnter
\* has returned false, navigate returning false.
C29_ListenerThrowDoesNotVeto ==
    [][\A i \in 1..Len(flights) :
         LET f == flights[i]
             rest == [Fields EXCEPT !.flights = Without(flights, i)]
         IN /\ (f.pc = "before" /\ f.listener = "throw" /\ Step(i, TRUE))
               => /\ returned' = Pending
                  /\ Len(flights') = Len(flights)
                  /\ IF f.idx < Len(beforeRoute)
                     THEN /\ Last(flights').pc = "before"
                          /\ Last(flights').idx = f.idx + 1
                          /\ Last(flights').listener = beforeRoute[f.idx + 1]
                     ELSE IF f.route.beforeEnter # "none"
                     THEN Last(flights').pc = "guard"
                     ELSE Last(flights').pc = "transition"
            /\ (f.pc = "guard" /\ f.route.beforeEnter = "throw" /\ Step(i, TRUE))
               => /\ Commit(Resume(rest, [f EXCEPT !.route.beforeEnter = "deny"], TRUE))
                  /\ returned' = Ret(FALSE, "vetoed")
                  /\ flights' = Without(flights, i)
                  /\ reported' = <<>>]_vars

C29_Witness ==
    /\ beforeRoute = <<"throw", "allow">>
    /\ Len(flights) = 1
    /\ flights[1].pc = "handler"
    /\ flights[1].route.beforeEnter = "allow"
    /\ currentRoute = flights[1].normalizedPath
    /\ \E k \in 1..Len(flights[1].steps) :
          flights[1].steps[k] = [step |-> "beforeRoute", idx |-> 2, phase |-> "ends"]
    /\ \E k \in 1..Len(flights[1].steps) :
          flights[1].steps[k] = [step |-> "beforeEnter", idx |-> 0, phase |-> "ends"]

\* C30: while the form shows that a submission succeeded and nothing has
\* been typed since (isDirty is false from the success to the next input),
\* local storage holds no draft.
C30_NoDraftAfterSuccess ==
    (status = "success" /\ ~isDirty) => draft = NoDraft

====
